---------------------------- MODULE Spec2Model ----------------------------
(***************************************************************************)
(* TaskFlow Pro API (backend/server.py): signup/login with JWT bearer      *)
(* tokens, and per-user task records with filtering, priority sorting,     *)
(* response normalisation and statistics, over a document store.           *)
(*                                                                         *)
(* A step of the model is one handler run from one store call (an awaited  *)
(* db operation) to the next.  signup and update_task make several calls   *)
(* and are therefore several steps, with other requests free to run in     *)
(* between.  get_current_user's own store call (db.users.find_one) is      *)
(* taken together with the handler's first store call: no handler ever     *)
(* updates or deletes a user, so no other request can change its result.   *)
(***************************************************************************)
EXTENDS Integers, Sequences, FiniteSets, TLC

VARIABLES
    users,          \* db.users: set of user documents
    tasks,          \* db.tasks: set of task documents
    status_checks,  \* db.status_checks: set of status documents
    issued,         \* the tokens signup and login have handed out
    created,        \* number of task ids drawn so far (uuid4 never repeats)
    now,            \* datetime.now(timezone.utc), in ticks
    today,          \* date.today()
    signups,        \* signup requests between find_one and insert_one
    updates,        \* update_task requests between their store calls
    pyjwt,          \* the expiry rule of the PyJWT release the build installed
    resp            \* the response sent by the step just taken

vars == <<users, tasks, status_checks, issued, created, now, today, signups, updates, pyjwt, resp>>

(***************************************************************************)
(* Bounds of the model.                                                    *)
(***************************************************************************)
\* the clock of the task specification stops after this many ticks
MaxNow == 1
\* the task ids there ever are: uuid4 hands them out in this order
TaskIds == {1, 2}
\* user documents that are ever inserted
MaxUsers == 2
\* requests that may be suspended at a store call at once
MaxInflight == 2
\* status documents that are ever inserted
MaxStatus == 1
\* clock ticks per second: the clock is finer than a token's expiry claim
TicksPerSecond == 2

(***************************************************************************)
(* Python values.  Optional[T] is a sequence: <<>> is None, <<v>> is v.    *)
(***************************************************************************)
None == <<>>

Some(v) == <<v>>

IsNone(o) == o = <<>>

Val(o) == o[1]

(***************************************************************************)
(* datetime.date, its isoformat() text and fromisoformat().  A text is a   *)
(* sequence of one-character strings.                                      *)
(***************************************************************************)
Digits == <<"0", "1", "2", "3", "4", "5", "6", "7", "8", "9">>

DigitChar(n) == Digits[n + 1]

DigitVal(c) == CHOOSE n \in 0..9 : Digits[n + 1] = c

date(y, m, d) == [year |-> y, month |-> m, day |-> d]

\* date.isoformat(): YYYY-MM-DD, zero padded
isoformat(d) ==
    << DigitChar(d.year \div 1000), DigitChar((d.year \div 100) % 10),
       DigitChar((d.year \div 10) % 10), DigitChar(d.year % 10), "-",
       DigitChar(d.month \div 10), DigitChar(d.month % 10), "-",
       DigitChar(d.day \div 10), DigitChar(d.day % 10) >>

\* a parser that reads the year one too high
fromisoformat_next_year(s) ==
    date(DigitVal(s[1]) * 1000 + DigitVal(s[2]) * 100 + DigitVal(s[3]) * 10 + DigitVal(s[4]) + 1,
         DigitVal(s[6]) * 10 + DigitVal(s[7]),
         DigitVal(s[9]) * 10 + DigitVal(s[10]))

\* datetime.fromisoformat(text).date()
fromisoformat(s) ==
    date(DigitVal(s[1]) * 1000 + DigitVal(s[2]) * 100 + DigitVal(s[3]) * 10 + DigitVal(s[4]),
         DigitVal(s[6]) * 10 + DigitVal(s[7]),
         DigitVal(s[9]) * 10 + DigitVal(s[10]))

\* a comparison that also holds of equal dates (<= written for <)
date_le(a, b) ==
    \/ a.year < b.year
    \/ a.year = b.year /\ a.month < b.month
    \/ a.year = b.year /\ a.month = b.month /\ a.day <= b.day

\* date.__lt__: by year, then month, then day
date_lt(a, b) ==
    \/ a.year < b.year
    \/ a.year = b.year /\ a.month < b.month
    \/ a.year = b.year /\ a.month = b.month /\ a.day < b.day

\* The value of a stored due_date field: None, a str, or a date object.
\* Every shape carries the same fields so that values compare.
NoText == <<>>

NoDate == date(0, 0, 0)

PyNone == [kind |-> "none", text |-> NoText, dateval |-> NoDate]

PyStr(s) == [kind |-> "str", text |-> s, dateval |-> NoDate]

PyDate(d) == [kind |-> "date", text |-> NoText, dateval |-> d]

\* Python truthiness of such a value: None and "" are false
Truthy(v) == \/ v.kind = "date"
             \/ v.kind = "str" /\ v.text # NoText

(***************************************************************************)
(* The days the model's calendar runs over (it crosses a year's end).      *)
(***************************************************************************)
Day1 == date(2024, 12, 31)

Day2 == date(2025, 1, 1)

Day3 == date(2025, 1, 2)

NextDay(d) == IF d = Day1 THEN Day2 ELSE Day3


(***************************************************************************)
(* Configuration and request inputs.                                       *)
(***************************************************************************)
SECRET_KEY == "your-secret-key-change-in-production"

ACCESS_TOKEN_EXPIRE_MINUTES == 30

Emails == {"a@x.com", "b@x.com"}

Passwords == {"p", "q"}

Names == {"n"}

\* UserCreate bodies
SignupInputs == [email : Emails, name : Names, password : Passwords]

\* UserLogin bodies
LoginInputs == [email : Emails, password : Passwords]

(***************************************************************************)
(* Responses.  resp is what the step just taken sent: a step that sends    *)
(* nothing (a request suspended at a store call, the clock) leaves NoResp. *)
(***************************************************************************)
NoResp ==
    [op |-> "none", status |-> 0, body |-> "", credentials |-> <<>>, task_id |-> 0,
     query |-> <<>>]

\* the response of handler `op` to a request that carried `credentials`
Response(op, status, body, credentials) ==
    [op |-> op, status |-> status, body |-> body, credentials |-> credentials,
     task_id |-> 0, query |-> None]

\* the response to a request on the path /tasks/{task_id}
OnTask(task_id, response) == [response EXCEPT !.task_id = task_id]

\* the response to a request with the query parameters (or the body) q
OnQuery(q, response) == [response EXCEPT !.query = Some(q)]

\* raise HTTPException(status_code, detail)
HTTPException(op, status, detail, credentials) == Response(op, status, detail, credentials)

(***************************************************************************)
(* Passwords: bcrypt with a fresh salt.  The hash keeps what checkpw can   *)
(* decide from it: whether a plain password is the one that was hashed.    *)
(***************************************************************************)
Salts == {"s1"}

hash_password(password, salt) == [salt |-> salt, of |-> password]

verify_password(plain_password, hashed_password) == hashed_password.of = plain_password

(***************************************************************************)
(* Tokens.  jwt.encode writes the exp claim as a NumericDate, whole        *)
(* seconds (the datetime's fraction of a second is dropped); jwt.decode    *)
(* checks the signature and then the exp claim against the clock.  The     *)
(* source does not pin the PyJWT release, and the releases differ at the   *)
(* expiry second: since 2.6 a token is expired when exp <= now, the clock  *)
(* read with its fraction of a second; before, when exp < now, the clock   *)
(* read in whole seconds.                                                  *)
(***************************************************************************)
PyJWTReleases == {"exp <= now", "exp < now"}

\* the release pip installs today
PyJWTCurrent == "exp <= now"

\* the exp claim of `token` is in the past, as the installed release decides it
exp_passed(token) ==
    IF pyjwt = "exp <= now"
    THEN token.exp * TicksPerSecond <= now
    ELSE token.exp < now \div TicksPerSecond

\* timedelta(minutes = m), in ticks
timedelta_minutes(m) == m * 60 * TicksPerSecond

\* jwt.encode: the payload {sub, exp} signed with `key`
jwt_encode(sub, expire, key) ==
    [form |-> "jwt", key |-> key, sub |-> sub, exp |-> expire \div TicksPerSecond]

\* a token that is given the lifetime of the branch without expires_delta
create_access_token_default(sub, expires_delta) ==
    LET expire == now + timedelta_minutes(15)
    IN  jwt_encode(Some(sub), expire, SECRET_KEY)

create_access_token(sub, expires_delta) ==
    LET expire == now + expires_delta
    IN  jwt_encode(Some(sub), expire, SECRET_KEY)

\* jwt.decode(token, SECRET_KEY, algorithms = [ALGORITHM]): "ok", or the error raised
jwt_decode(token) ==
    IF token.form # "jwt" THEN "InvalidTokenError"
    ELSE IF token.key # SECRET_KEY THEN "InvalidTokenError"
    ELSE IF exp_passed(token) THEN "ExpiredSignatureError"
    ELSE "ok"

\* db.users.find_one(filter): the first matching document in insertion order
\* (user ids are drawn in insertion order); None when there is none
users_find_one(filter) ==
    LET hits == {u \in users : \A k \in DOMAIN filter : u[k] = filter[k]}
    IN  IF hits = {} THEN None
        ELSE Some(CHOOSE u \in hits : \A v \in hits : u.id <= v.id)

\* The result of the dependency: [ok, detail, user]
AuthFailed(detail) == [ok |-> FALSE, detail |-> detail, user |-> None]

get_current_user(credentials) ==
    IF IsNone(credentials) THEN AuthFailed("Could not validate credentials")
    ELSE LET token == Val(credentials)
             decoded == jwt_decode(token)
         IN  IF decoded = "ExpiredSignatureError" THEN AuthFailed("Token expired")
             ELSE IF decoded = "InvalidTokenError"
                  THEN AuthFailed("Could not validate credentials")
             ELSE IF IsNone(token.sub) THEN AuthFailed("Could not validate credentials")
             ELSE LET user == users_find_one([id |-> Val(token.sub)])
                  IN  IF IsNone(user) THEN AuthFailed("Could not validate credentials")
                      ELSE [ok |-> TRUE, detail |-> "", user |-> user]

\* Tokens nobody was issued: not a JWT, signed with another key, and signed
\* with the server's key (the default secret is in the source) but without a
\* subject, or for a user id (0) no user has.
CraftedTokens ==
    { [form |-> "garbage", key |-> "", sub |-> None, exp |-> 0],
      [form |-> "jwt", key |-> "other-key", sub |-> Some(1), exp |-> 7200],
      [form |-> "jwt", key |-> SECRET_KEY, sub |-> None, exp |-> 7200],
      [form |-> "jwt", key |-> SECRET_KEY, sub |-> Some(0), exp |-> 7200] }

\* What a request may carry in its Authorization header
Credentials == {None} \cup {Some(i.token) : i \in issued} \cup {Some(t) : t \in CraftedTokens}

\* requests suspended at a store call
Inflight == Cardinality(signups) + Cardinality(updates)

(***************************************************************************)
(* POST /auth/signup                                                       *)
(***************************************************************************)
\* up to the first store call's result: db.users.find_one({"email": ...})
signup_find(user_data) ==
    /\ user_data \notin signups
    /\ LET existing_user == users_find_one([email |-> user_data.email])
       IN  IF ~IsNone(existing_user)
           THEN /\ resp' = HTTPException("signup", 400, "Email already registered", None)
                /\ UNCHANGED signups
           ELSE /\ Inflight < MaxInflight
                /\ Cardinality(users) + Cardinality(signups) < MaxUsers
                /\ signups' = signups \cup {user_data}
                /\ resp' = NoResp
    /\ UNCHANGED <<pyjwt, users, tasks, status_checks, issued, created, now, today, updates>>

\* from db.users.insert_one(user_doc) to the response
signup_insert(user_data) ==
    /\ user_data \in signups
    /\ \E salt \in Salts :
        LET user_id == Cardinality(users) + 1
            user_doc == [id |-> user_id, email |-> user_data.email, name |-> user_data.name,
                         password |-> hash_password(user_data.password, salt),
                         created_at |-> now]
            access_token == create_access_token(user_id,
                                timedelta_minutes(ACCESS_TOKEN_EXPIRE_MINUTES))
        IN  /\ users' = users \cup {user_doc}
            /\ issued' = issued \cup {[token |-> access_token, at |-> now]}
            /\ resp' = Response("signup", 200,
                                [access_token |-> access_token, user |-> user_id], None)
    /\ signups' = signups \ {user_data}
    /\ UNCHANGED <<pyjwt, tasks, status_checks, created, now, today, updates>>

(***************************************************************************)
(* POST /auth/login                                                        *)
(***************************************************************************)
login(login_data) ==
    /\ LET user == users_find_one([email |-> login_data.email])
       IN  IF IsNone(user) \/ ~verify_password(login_data.password, Val(user).password)
           THEN /\ resp' = OnQuery(login_data,
                               HTTPException("login", 401, "Incorrect email or password", None))
                /\ UNCHANGED issued
           ELSE LET access_token == create_access_token(Val(user).id,
                                        timedelta_minutes(ACCESS_TOKEN_EXPIRE_MINUTES))
                IN  /\ issued' = issued \cup {[token |-> access_token, at |-> now]}
                    /\ resp' = OnQuery(login_data,
                                   Response("login", 200,
                                       [access_token |-> access_token, user |-> Val(user).id],
                                       None))
    /\ UNCHANGED <<pyjwt, users, tasks, status_checks, created, now, today, signups, updates>>

(***************************************************************************)
(* GET /auth/profile                                                       *)
(***************************************************************************)
get_profile(credentials) ==
    /\ LET auth == get_current_user(credentials)
       IN  IF ~auth.ok THEN resp' = HTTPException("get_profile", 401, auth.detail, credentials)
           ELSE resp' = Response("get_profile", 200,
                                 [id |-> Val(auth.user).id, email |-> Val(auth.user).email],
                                 credentials)
    /\ UNCHANGED <<pyjwt, users, tasks, status_checks, issued, created, now, today, signups, updates>>


(***************************************************************************)
(* Task documents.  A document is a function from its field names; one     *)
(* written before due_date, priority and category existed lacks them.      *)
(***************************************************************************)
\* dict.get(key, default)
get(doc, key, default) == IF key \in DOMAIN doc THEN doc[key] ELSE default

\* dict.setdefault(key, default)
setdefault(doc, key, default) == IF key \in DOMAIN doc THEN doc ELSE (key :> default) @@ doc

\* the date a truthy due_date value stands for (server.py 154-157)
due_date_of(v) == IF v.kind = "str" THEN fromisoformat(v.text) ELSE v.dateval

prepare_task_for_response(task) ==
    LET t1 == setdefault(task, "due_date", PyNone)
        t2 == setdefault(t1, "priority", "medium")
        t3 == setdefault(t2, "category", "General")
        is_overdue ==
            IF Truthy(get(t3, "due_date", PyNone)) /\ ~get(t3, "completed", FALSE)
            THEN date_lt(due_date_of(t3.due_date), today)
            ELSE FALSE
        t4 == ("is_overdue" :> is_overdue) @@ t3
    IN  IF Truthy(get(t4, "due_date", PyNone)) /\ t4.due_date.kind = "date"
        THEN [t4 EXCEPT !.due_date = PyStr(isoformat(t4.due_date.dateval))]
        ELSE t4

\* db.tasks.find(filter), in natural (insertion) order: task ids are drawn in
\* insertion order
\* the documents of S with ids in lo..hi, by id
RECURSIVE SortBetween(_, _, _)
SortBetween(S, lo, hi) ==
    IF S = {} THEN <<>>
    ELSE IF lo = hi THEN <<CHOOSE t \in S : TRUE>>
    ELSE LET mid == (lo + hi) \div 2
         IN  SortBetween({t \in S : t.id <= mid}, lo, mid)
                 \o SortBetween({t \in S : t.id > mid}, mid + 1, hi)

SortById(S) == SortBetween(S, 1, created)

tasks_find(filter) == SortById({t \in tasks : \A k \in DOMAIN filter : t[k] = filter[k]})

\* cursor.to_list(length): at most `length` documents
to_list(cursor, length) ==
    IF Len(cursor) <= length THEN cursor ELSE SubSeq(cursor, 1, length)

\* a find_one whose filter leaves out the owner: {"id": task_id}
tasks_find_one_by_id(task_id, user_id) ==
    LET hits == tasks_find([id |-> task_id])
    IN  IF hits = <<>> THEN None ELSE Some(hits[1])

\* db.tasks.find_one({"id": task_id, "user_id": user_id})
tasks_find_one(task_id, user_id) ==
    LET hits == tasks_find([id |-> task_id, user_id |-> user_id])
    IN  IF hits = <<>> THEN None ELSE Some(hits[1])

(***************************************************************************)
(* POST /tasks                                                             *)
(***************************************************************************)
\* the document of server.py 285-296, with `at` the value of datetime.now
new_task_doc(task_id, task_data, user_id, at) ==
    [id |-> task_id,
     title |-> task_data.title,
     description |-> task_data.description,
     due_date |-> IF ~IsNone(task_data.due_date)
                  THEN PyStr(isoformat(Val(task_data.due_date)))
                  ELSE PyNone,
     priority |-> task_data.priority,
     category |-> IF IsNone(task_data.category) \/ Val(task_data.category) = ""
                  THEN "General" ELSE Val(task_data.category),
     completed |-> task_data.completed,
     user_id |-> user_id,
     created_at |-> at,
     updated_at |-> at]

create_task(credentials, task_data) ==
    /\ LET auth == get_current_user(credentials)
       IN  IF ~auth.ok
           THEN /\ resp' = HTTPException("create_task", 401, auth.detail, credentials)
                /\ UNCHANGED <<tasks, created>>
           ELSE /\ created < Cardinality(TaskIds)
                /\ LET task_id == created + 1
                       task_doc == new_task_doc(task_id, task_data, Val(auth.user).id, now)
                   IN  /\ tasks' = tasks \cup {task_doc}
                       /\ created' = task_id
                       /\ resp' = Response("create_task", 200,
                                           prepare_task_for_response(task_doc), credentials)
    /\ UNCHANGED <<pyjwt, users, status_checks, issued, now, today, signups, updates>>

(***************************************************************************)
(* GET /tasks/{task_id}                                                    *)
(***************************************************************************)
get_task(credentials, task_id) ==
    /\ LET auth == get_current_user(credentials)
       IN  IF ~auth.ok THEN resp' = OnTask(task_id, HTTPException("get_task", 401, auth.detail, credentials))
           ELSE LET task == tasks_find_one(task_id, Val(auth.user).id)
                IN  IF IsNone(task) THEN resp' = OnTask(task_id, HTTPException("get_task", 404, "Task not found", credentials))
                    ELSE resp' = OnTask(task_id, Response("get_task", 200,
                                          prepare_task_for_response(Val(task)), credentials))
    /\ UNCHANGED <<pyjwt, users, tasks, status_checks, issued, created, now, today, signups, updates>>

(***************************************************************************)
(* PUT /tasks/{task_id}                                                    *)
(***************************************************************************)
\* the empty dict
EmptyDict == [k \in {} |-> TRUE]

\* one `if task_update.<field> is not None: update_data[<field>] = ...`
Supplied(field, opt, value) == IF IsNone(opt) THEN EmptyDict ELSE field :> value

\* server.py 471-483
update_data_of(task_update) ==
    Supplied("title", task_update.title, Val(task_update.title))
    @@ Supplied("description", task_update.description, Val(task_update.description))
    @@ Supplied("due_date", task_update.due_date,
                PyStr(isoformat(Val(task_update.due_date))))
    @@ Supplied("priority", task_update.priority, Val(task_update.priority))
    @@ Supplied("category", task_update.category, Val(task_update.category))
    @@ Supplied("completed", task_update.completed, Val(task_update.completed))

\* an update_data that is time-stamped whether or not it is empty
stamped_always(update_data) == ("updated_at" :> now) @@ update_data

\* server.py 485-486: a non-empty update_data gets the time of the update
stamped(update_data) ==
    IF update_data # EmptyDict THEN ("updated_at" :> now) @@ update_data ELSE update_data

\* an update that also resets completed when the request does not supply it
tasks_update_one_resetting(task_id, user_id, update_data) ==
    LET hit == tasks_find_one(task_id, user_id)
    IN  IF IsNone(hit) THEN tasks
        ELSE (tasks \ {Val(hit)}) \cup {update_data @@ ("completed" :> FALSE) @@ Val(hit)}

\* an update that is dropped when the stored updated_at is later than its own
tasks_update_one_latest_stamp(task_id, user_id, update_data) ==
    LET hit == tasks_find_one(task_id, user_id)
    IN  IF IsNone(hit) \/ Val(hit).updated_at > update_data.updated_at THEN tasks
        ELSE (tasks \ {Val(hit)}) \cup {update_data @@ Val(hit)}

\* an update that flips the stored completed flag when the request supplies one
tasks_update_one_toggling(task_id, user_id, update_data) ==
    LET hit == tasks_find_one(task_id, user_id)
    IN  IF IsNone(hit) THEN tasks
        ELSE IF "completed" \in DOMAIN update_data
        THEN (tasks \ {Val(hit)})
                \cup {[update_data EXCEPT !.completed = ~Val(hit).completed] @@ Val(hit)}
        ELSE (tasks \ {Val(hit)}) \cup {update_data @@ Val(hit)}

\* update_one(filter, {"$set": update_data}) on the collection
tasks_update_one(task_id, user_id, update_data) ==
    LET hit == tasks_find_one(task_id, user_id)
    IN  IF IsNone(hit) THEN tasks
        ELSE (tasks \ {Val(hit)}) \cup {update_data @@ Val(hit)}

\* up to the first store call's result: the existence check; then update_data
\* is built and time-stamped, and the next store call is sent
update_find(credentials, task_id, task_update) ==
    /\ LET auth == get_current_user(credentials)
       IN  IF ~auth.ok
           THEN /\ resp' = OnTask(task_id, HTTPException("update_task", 401, auth.detail, credentials))
                /\ UNCHANGED updates
           ELSE LET user_id == Val(auth.user).id
                    existing_task == tasks_find_one(task_id, user_id)
                    update_data == stamped(update_data_of(task_update))
                IN  IF IsNone(existing_task)
                    THEN /\ resp' = OnTask(task_id, HTTPException("update_task", 404, "Task not found", credentials))
                         /\ UNCHANGED updates
                    ELSE /\ Inflight < MaxInflight
                         /\ LET req == [credentials |-> credentials, user_id |-> user_id,
                                        task_id |-> task_id, task_update |-> task_update,
                                        existing_task |-> Val(existing_task),
                                        update_data |-> update_data,
                                        pc |-> IF update_data # EmptyDict
                                               THEN "update_one" ELSE "find_one"]
                            IN  /\ req \notin updates
                                /\ updates' = updates \cup {req}
                         /\ resp' = NoResp
    /\ UNCHANGED <<pyjwt, users, tasks, status_checks, issued, created, now, today, signups>>

\* db.tasks.update_one(...) takes effect
update_write(req) ==
    /\ req \in updates
    /\ req.pc = "update_one"
    /\ tasks' = tasks_update_one(req.task_id, req.user_id, req.update_data)
    /\ updates' = (updates \ {req}) \cup {[req EXCEPT !.pc = "find_one"]}
    /\ resp' = NoResp
    /\ UNCHANGED <<pyjwt, users, status_checks, issued, created, now, today, signups>>

\* a handler that answers with the task of its first find_one when the
\* second finds none
update_reread_unchecked(req) ==
    /\ req \in updates
    /\ req.pc = "find_one"
    /\ LET updated_task == tasks_find_one(req.task_id, req.user_id)
           task == IF IsNone(updated_task) THEN req.existing_task ELSE Val(updated_task)
       IN  resp' = OnTask(req.task_id, Response("update_task", 200,
                             prepare_task_for_response(task), req.credentials))
    /\ updates' = updates \ {req}
    /\ UNCHANGED <<pyjwt, users, tasks, status_checks, issued, created, now, today, signups>>

\* the second find_one, and the response
update_reread(req) ==
    /\ req \in updates
    /\ req.pc = "find_one"
    /\ LET updated_task == tasks_find_one(req.task_id, req.user_id)
       IN  IF IsNone(updated_task)
           THEN resp' = OnTask(req.task_id, HTTPException("update_task", 404, "Task not found", req.credentials))
           ELSE resp' = OnTask(req.task_id, Response("update_task", 200,
                                 prepare_task_for_response(Val(updated_task)), req.credentials))
    /\ updates' = updates \ {req}
    /\ UNCHANGED <<pyjwt, users, tasks, status_checks, issued, created, now, today, signups>>

(***************************************************************************)
(* DELETE /tasks/{task_id}                                                 *)
(***************************************************************************)
\* a handler that deletes before it looks at the result of the dependency
delete_task_then_auth(credentials, task_id) ==
    /\ LET auth == get_current_user(credentials)
           hits == {t \in tasks : t.id = task_id}
       IN  /\ tasks' = tasks \ hits
           /\ resp' = IF ~auth.ok
                      THEN OnTask(task_id, HTTPException("delete_task", 401, auth.detail, credentials))
                      ELSE IF hits = {}
                      THEN OnTask(task_id, HTTPException("delete_task", 404, "Task not found", credentials))
                      ELSE OnTask(task_id, Response("delete_task", 200,
                                             "Task deleted successfully", credentials))
    /\ UNCHANGED <<pyjwt, users, status_checks, issued, created, now, today, signups, updates>>

delete_task(credentials, task_id) ==
    /\ LET auth == get_current_user(credentials)
       IN  IF ~auth.ok
           THEN /\ resp' = OnTask(task_id, HTTPException("delete_task", 401, auth.detail, credentials))
                /\ UNCHANGED tasks
           ELSE LET hit == tasks_find_one(task_id, Val(auth.user).id)
                IN  IF IsNone(hit)
                    THEN /\ resp' = OnTask(task_id, HTTPException("delete_task", 404, "Task not found", credentials))
                         /\ UNCHANGED tasks
                    ELSE /\ tasks' = tasks \ {Val(hit)}
                         /\ resp' = OnTask(task_id, Response("delete_task", 200,
                                             "Task deleted successfully", credentials))
    /\ UNCHANGED <<pyjwt, users, status_checks, issued, created, now, today, signups, updates>>


(***************************************************************************)
(* GET /tasks                                                              *)
(***************************************************************************)
\* Python's and MongoDB's order of the strings the model uses (by code point)
StrOrder ==
    << "", "General", "Health", "Home", "Learning", "Pay rent", "Personal",
       "Shopping", "Work", "Write report", "monthly", "work stuff" >>

StrRank(s) == CHOOSE i \in 1..Len(StrOrder) : StrOrder[i] = s

\* {"$regex": pattern, "$options": "i"} on a string field: the pairs
\* <<pattern, text>> of the model's strings where the pattern is found in
\* the text, letter case ignored
RegexHits ==
    { <<"work", "Work">>, <<"work", "work stuff">>,
      <<"re", "Pay rent">>, <<"re", "Write report">> }

regex_search(pattern, text) == <<pattern, text>> \in RegexHits

\* `if value:` on an Optional[str] query parameter
TruthyStr(opt) == ~IsNone(opt) /\ Val(opt) # ""

\* a stored field equals a value (a document without the field does not match)
FieldIs(doc, key, value) == key \in DOMAIN doc /\ doc[key] = value

FieldMatches(doc, key, pattern) == key \in DOMAIN doc /\ regex_search(pattern, doc[key])

\* the filter built at server.py 315-331
query_matches(t, user_id, q) ==
    /\ t.user_id = user_id
    /\ IsNone(q.completed) \/ FieldIs(t, "completed", Val(q.completed))
    /\ ~TruthyStr(q.category) \/ FieldIs(t, "category", Val(q.category))
    /\ ~TruthyStr(q.priority) \/ FieldIs(t, "priority", Val(q.priority))
    /\ ~TruthyStr(q.search) \/ FieldMatches(t, "title", Val(q.search))
                            \/ FieldMatches(t, "description", Val(q.search))
                            \/ FieldMatches(t, "category", Val(q.search))

\* a $switch whose branches for medium and low are exchanged
priority_order_exchanged(t) ==
    IF FieldIs(t, "priority", "high") THEN 3
    ELSE IF FieldIs(t, "priority", "medium") THEN 1
    ELSE IF FieldIs(t, "priority", "low") THEN 2
    ELSE 0

\* the $switch of the $addFields stage
priority_order(t) ==
    IF FieldIs(t, "priority", "high") THEN 3
    ELSE IF FieldIs(t, "priority", "medium") THEN 2
    ELSE IF FieldIs(t, "priority", "low") THEN 1
    ELSE 0

\* the sort key of a field other than priority: a missing field and null sort
\* first, strings by code point
sort_key(t, sort_field) ==
    IF sort_field = "created_at" THEN t.created_at
    ELSE IF sort_field = "title" THEN StrRank(t.title)
    ELSE LET v == get(t, "due_date", PyNone)
         IN  IF v.kind = "none" THEN 0
             ELSE LET d == due_date_of(v) IN d.year * 10000 + d.month * 100 + d.day

\* a $sort stage whose created_at key follows the requested direction too
sorts_before_directed(a, b, sort_by, sort_direction) ==
    IF sort_by = "priority"
    THEN \/ sort_direction * priority_order(a) < sort_direction * priority_order(b)
         \/ /\ priority_order(a) = priority_order(b)
            /\ sort_direction * a.created_at < sort_direction * b.created_at
    ELSE sort_direction * sort_key(a, sort_by) < sort_direction * sort_key(b, sort_by)

\* a sorts strictly before b in the requested order
sorts_before(a, b, sort_by, sort_direction) ==
    IF sort_by = "priority"
    THEN \/ sort_direction * priority_order(a) < sort_direction * priority_order(b)
         \/ priority_order(a) = priority_order(b) /\ a.created_at > b.created_at
    ELSE sort_direction * sort_key(a, sort_by) < sort_direction * sort_key(b, sort_by)

RECURSIVE Orderings(_)
Orderings(S) ==
    IF S = {} THEN {<<>>}
    ELSE UNION {{<<x>> \o p : p \in Orderings(S \ {x})} : x \in S}

\* the orders the store may return the matching documents in: documents the
\* sort does not separate come in any order
sorted_cursors(S, sort_by, sort_direction) ==
    {c \in Orderings(S) :
        \A i, j \in 1..Len(c) : i < j => ~sorts_before(c[j], c[i], sort_by, sort_direction)}

ListCap == 1000

get_tasks(credentials, q) ==
    /\ LET auth == get_current_user(credentials)
       IN  IF ~auth.ok
           THEN resp' = OnQuery(q, HTTPException("get_tasks", 401, auth.detail, credentials))
           ELSE LET sort_direction == IF q.sort_order = "asc" THEN 1 ELSE -1
                    matching == {t \in tasks : query_matches(t, Val(auth.user).id, q)}
                IN  \E cursor \in sorted_cursors(matching, q.sort_by, sort_direction) :
                        LET found == to_list(cursor, ListCap)
                        IN  resp' = OnQuery(q, Response("get_tasks", 200,
                                        [i \in 1..Len(found) |-> prepare_task_for_response(found[i])],
                                        credentials))
    /\ UNCHANGED <<pyjwt, users, tasks, status_checks, issued, created, now, today, signups, updates>>

(***************************************************************************)
(* GET /tasks/stats                                                        *)
(***************************************************************************)
category_colors(name) ==
    CASE name = "General"  -> "#6B7280"
      [] name = "Work"     -> "#DC2626"
      [] name = "Personal" -> "#059669"
      [] name = "Health"   -> "#7C3AED"
      [] name = "Learning" -> "#EA580C"
      [] name = "Shopping" -> "#0891B2"
      [] OTHER             -> "#6B7280"

\* a loop that sets a category's count to 1 each time instead of adding to it
RECURSIVE count_categories_once(_)
count_categories_once(found) ==
    IF found = <<>> THEN <<>>
    ELSE LET before == count_categories_once(SubSeq(found, 1, Len(found) - 1))
             category == get(found[Len(found)], "category", "General")
         IN  IF \E i \in 1..Len(before) : before[i].name = category
             THEN before
             ELSE Append(before, [name |-> category, count |-> 1])

\* the `categories` dict after the loop over `found`, as its items in
\* insertion order
count_categories(found) ==
    LET category(i) == get(found[i], "category", "General")
        names == {category(i) : i \in 1..Len(found)}
        \* the task that inserts the key, and the keys inserted before it
        first(name) == CHOOSE i \in 1..Len(found) :
                           category(i) = name /\ \A j \in 1..(i - 1) : category(j) # name
        firsts == [name \in names |-> first(name)]
        place(name) == 1 + Cardinality({other \in names : firsts[other] < firsts[name]})
    IN  [k \in 1..Cardinality(names) |->
            LET name == CHOOSE n \in names : place(n) = k
            IN  [name |-> name,
                 count |-> Cardinality({i \in 1..Len(found) : category(i) = name})]]

\* server.py 390-396
counts_as_overdue(task) ==
    /\ Truthy(get(task, "due_date", PyNone))
    /\ ~get(task, "completed", FALSE)
    /\ date_lt(due_date_of(task.due_date), today)

task_stats(found) ==
    LET total == Len(found)
        completed == Cardinality({i \in 1..Len(found) : get(found[i], "completed", FALSE)})
        pending == total - completed
        overdue == Cardinality({i \in 1..Len(found) : counts_as_overdue(found[i])})
        high_priority == Cardinality({i \in 1..Len(found) :
                                         "priority" \in DOMAIN found[i] /\ found[i].priority = "high"})
        categories == count_categories(found)
    IN  [total |-> total, completed |-> completed, pending |-> pending,
         overdue |-> overdue, high_priority |-> high_priority,
         categories |-> [i \in 1..Len(categories) |->
                            [name |-> categories[i].name, count |-> categories[i].count,
                             color |-> category_colors(categories[i].name)]]]

get_task_stats(credentials) ==
    /\ LET auth == get_current_user(credentials)
       IN  IF ~auth.ok THEN resp' = HTTPException("get_task_stats", 401, auth.detail, credentials)
           ELSE LET found == to_list(tasks_find([user_id |-> Val(auth.user).id]), ListCap)
                IN  resp' = Response("get_task_stats", 200, task_stats(found), credentials)
    /\ UNCHANGED <<pyjwt, users, tasks, status_checks, issued, created, now, today, signups, updates>>

(***************************************************************************)
(* GET /tasks/categories                                                   *)
(***************************************************************************)
default_categories == <<"General", "Work", "Personal", "Health", "Learning", "Shopping">>

\* a sort in descending order
RECURSIVE sorted_reverse(_)
sorted_reverse(S) ==
    IF S = {} THEN <<>>
    ELSE LET first == CHOOSE x \in S : \A y \in S : StrRank(x) >= StrRank(y)
         IN  <<first>> \o sorted_reverse(S \ {first})

\* sorted(list of distinct strings)
RECURSIVE sorted(_)
sorted(S) ==
    IF S = {} THEN <<>>
    ELSE LET first == CHOOSE x \in S : \A y \in S : StrRank(x) <= StrRank(y)
         IN  <<first>> \o sorted(S \ {first})

GroupCap == 100

get_categories(credentials) ==
    /\ LET auth == get_current_user(credentials)
       IN  IF ~auth.ok THEN resp' = HTTPException("get_categories", 401, auth.detail, credentials)
           ELSE LET \* $match, $group by $category (null for a missing field), $sort
                    groups == {get(t, "category", "") : t \in {u \in tasks : u.user_id = Val(auth.user).id}}
                    results == to_list(sorted(groups), GroupCap)
                    categories == {results[i] : i \in {j \in 1..Len(results) : results[j] # ""}}
                    with_defaults == categories \cup {default_categories[i] : i \in 1..Len(default_categories)}
                IN  resp' = Response("get_categories", 200, sorted(with_defaults), credentials)
    /\ UNCHANGED <<pyjwt, users, tasks, status_checks, issued, created, now, today, signups, updates>>

(***************************************************************************)
(* Legacy routes: GET /, POST /status, GET /status                         *)
(***************************************************************************)
ClientNames == {"c"}

root ==
    /\ resp' = Response("root", 200, "TaskFlow Pro API - Advanced Task Management", None)
    /\ UNCHANGED <<pyjwt, users, tasks, status_checks, issued, created, now, today, signups, updates>>

create_status_check(input) ==
    /\ Cardinality(status_checks) < MaxStatus
    /\ LET status_obj == [id |-> Cardinality(status_checks) + 1,
                          client_name |-> input.client_name, timestamp |-> now]
       IN  /\ status_checks' = status_checks \cup {status_obj}
           /\ resp' = Response("create_status_check", 200, status_obj, None)
    /\ UNCHANGED <<pyjwt, users, tasks, issued, created, now, today, signups, updates>>

get_status_checks ==
    /\ resp' = Response("get_status_checks", 200, status_checks, None)
    /\ UNCHANGED <<pyjwt, users, tasks, status_checks, issued, created, now, today, signups, updates>>

(***************************************************************************)
(* The clock.                                                              *)
(***************************************************************************)
\* time passes between two requests: datetime.now() reads a later instant
clock_advance(ticks, limit) ==
    /\ now + ticks <= limit
    /\ now' = now + ticks
    /\ resp' = NoResp
    /\ UNCHANGED <<pyjwt, users, tasks, status_checks, issued, created, today, signups, updates>>

\* midnight passes: date.today() reads the next day
midnight ==
    /\ today # Day3
    /\ today' = NextDay(today)
    /\ resp' = NoResp
    /\ UNCHANGED <<pyjwt, users, tasks, status_checks, issued, created, now, signups, updates>>


(***************************************************************************)
(* The task specification.  It starts from a store two users have signed   *)
(* up to at time 0 (a state the authentication specification reaches),     *)
(* the first of them owning a task written before the due_date, priority  *)
(* and category fields existed (the records prepare_task_for_response      *)
(* backfills).  Its requests carry the tokens the two users were issued;   *)
(* an update is suspended at its store calls while other requests run,     *)
(* one update at a time.                                                   *)
(***************************************************************************)
UserA ==
    [id |-> 1, email |-> "a@x.com", name |-> "n",
     password |-> hash_password("p", "s1"), created_at |-> 0]

UserB ==
    [id |-> 2, email |-> "b@x.com", name |-> "n",
     password |-> hash_password("p", "s1"), created_at |-> 0]

LegacyTask ==
    [id |-> 1, title |-> "Pay rent", description |-> "", completed |-> FALSE,
     user_id |-> 1, created_at |-> 0, updated_at |-> 0]

Init ==
    /\ now = 0
    /\ today = Day2
    /\ pyjwt = PyJWTCurrent
    /\ users = {UserA, UserB}
    /\ issued = {[token |-> create_access_token(u.id, timedelta_minutes(ACCESS_TOKEN_EXPIRE_MINUTES)),
                   at |-> now] : u \in users}
    /\ tasks = {LegacyTask}
    /\ created = 1
    /\ status_checks = {}
    /\ signups = {}
    /\ updates = {}
    /\ resp = NoResp

\* the Authorization headers of the task specification: the issued tokens
TaskCredentials == {Some(i.token) : i \in issued}

\* TaskCreate bodies (pydantic has filled in the defaults)
CreateInputs ==
    { [title |-> "Pay rent", description |-> "", due_date |-> Some(Day1),
       priority |-> "low", category |-> None, completed |-> FALSE],
      [title |-> "Write report", description |-> "work stuff", due_date |-> None,
       priority |-> "high", category |-> Some("Work"), completed |-> TRUE] }

NoUpdate ==
    [title |-> None, description |-> None, due_date |-> None,
     priority |-> None, category |-> None, completed |-> None]

\* TaskUpdate bodies
UpdateInputs ==
    { NoUpdate,
      [NoUpdate EXCEPT !.completed = Some(TRUE)],
      [NoUpdate EXCEPT !.title = Some("Write report"), !.due_date = Some(Day2)] }

NoFilter ==
    [completed |-> None, search |-> None, category |-> None, priority |-> None,
     sort_by |-> "created_at", sort_order |-> "desc"]

Next ==
    \/ \E c \in TaskCredentials, task_data \in CreateInputs : create_task(c, task_data)
    \/ \E c \in TaskCredentials : get_tasks(c, NoFilter)
    \/ \E c \in TaskCredentials, task_id \in TaskIds : get_task(c, task_id)
    \/ \E c \in TaskCredentials, task_id \in TaskIds, task_update \in UpdateInputs :
           updates = {} /\ update_find(c, task_id, task_update)
    \/ \E req \in updates : update_write(req)
    \/ \E req \in updates : update_reread(req)
    \/ \E c \in TaskCredentials, task_id \in TaskIds : delete_task(c, task_id)
    \/ clock_advance(1, MaxNow)
    \/ midnight

Spec == Init /\ [][Next]_vars

(***************************************************************************)
(* The query specification.  get_tasks, get_task_stats and get_categories  *)
(* only read the store, so they are run on every store of up to MaxStored  *)
(* tasks that the two users' create_task requests at times 0 and 1 can     *)
(* have left behind a legacy task or in place of it.                       *)
(***************************************************************************)
MaxStored == 3

QueryCreateInputs ==
    { [title |-> "Pay rent", description |-> "", due_date |-> Some(Day1),
       priority |-> "low", category |-> None, completed |-> FALSE],
      [title |-> "Write report", description |-> "work stuff", due_date |-> None,
       priority |-> "high", category |-> Some("Work"), completed |-> TRUE],
      [title |-> "Pay rent", description |-> "monthly", due_date |-> Some(Day2),
       priority |-> "medium", category |-> Some("Home"), completed |-> FALSE] }

\* what may be stored under one task id: nothing (<<>>), the legacy task, a
\* task of the first user, or a task of the second user
StoredUnder(task_id) ==
    {None, Some([LegacyTask EXCEPT !.id = task_id])}
    \cup {Some(new_task_doc(task_id, d, 1, at)) : d \in QueryCreateInputs, at \in {0, 1}}
    \cup {Some(new_task_doc(task_id, d, 2, 1)) :
             d \in {e \in QueryCreateInputs : e.priority = "high"}}

QueryInit ==
    /\ now = 1
    /\ today = Day2
    /\ pyjwt = PyJWTCurrent
    /\ users = {UserA, UserB}
    /\ issued = {[token |-> jwt_encode(Some(u.id), timedelta_minutes(ACCESS_TOKEN_EXPIRE_MINUTES),
                                       SECRET_KEY),
                  at |-> 0] : u \in users}
    /\ \E stored \in [1..MaxStored -> UNION {StoredUnder(i) : i \in 1..MaxStored}] :
          /\ \A i \in 1..MaxStored : stored[i] \in StoredUnder(i)
          \* task ids are drawn in the order of creation
          /\ \A i, j \in 1..MaxStored :
                (i < j /\ ~IsNone(stored[i]) /\ ~IsNone(stored[j]))
                   => Val(stored[i]).created_at <= Val(stored[j]).created_at
          /\ tasks = {Val(stored[i]) : i \in {j \in 1..MaxStored : ~IsNone(stored[j])}}
    /\ created = MaxStored
    /\ status_checks = {}
    /\ signups = {}
    /\ updates = {}
    /\ resp = NoResp

\* GET /tasks query strings
ListQueries ==
    { NoFilter,
      [NoFilter EXCEPT !.sort_by = "priority", !.sort_order = "asc"],
      [NoFilter EXCEPT !.sort_by = "priority"] }

QueryNext ==
    \/ \E c \in TaskCredentials, q \in ListQueries : get_tasks(c, q)
    \/ \E c \in TaskCredentials : get_task_stats(c)
    \/ \E c \in TaskCredentials : get_categories(c)
    \/ midnight

SpecQuery == QueryInit /\ [][QueryNext]_vars

(***************************************************************************)
(* The authentication specification.  It starts from the empty store.      *)
(* Signups are suspended between their two store calls while other         *)
(* requests run; every route is requested with every Authorization header  *)
(* a client can send: none, a token that was issued, a crafted one.  The   *)
(* clock jumps past the lifetime of the tokens issued so far.              *)
(***************************************************************************)
\* two people sign up with the same email, each with a password of their own
AuthSignupInputs == {user_data \in SignupInputs : user_data.email = "a@x.com"}

AuthLoginInputs == {login_data \in LoginInputs : login_data.email = "a@x.com"}

AuthCreateInputs ==
    { [title |-> "Write report", description |-> "work stuff", due_date |-> None,
       priority |-> "high", category |-> Some("Work"), completed |-> FALSE] }

AuthUpdateInputs == { [NoUpdate EXCEPT !.completed = Some(TRUE)] }

\* StatusCheckCreate bodies
StatusInputs == [client_name : ClientNames]

\* the jump of the clock: one minute more than a token lives
PastExpiry == timedelta_minutes(ACCESS_TOKEN_EXPIRE_MINUTES + 1)

AuthInit ==
    /\ now = 0
    /\ today = Day2
    /\ pyjwt = PyJWTCurrent
    /\ users = {}
    /\ issued = {}
    /\ tasks = {}
    /\ created = 0
    /\ status_checks = {}
    /\ signups = {}
    /\ updates = {}
    /\ resp = NoResp

AuthNext ==
    \/ \E user_data \in AuthSignupInputs : signup_find(user_data)
    \/ \E user_data \in signups : signup_insert(user_data)
    \/ \E login_data \in AuthLoginInputs : login(login_data)
    \/ \E c \in Credentials : get_profile(c)
    \/ \E c \in Credentials, task_data \in AuthCreateInputs :
           created = 0 /\ create_task(c, task_data)
    \/ \E c \in Credentials : get_tasks(c, NoFilter)
    \/ \E c \in Credentials : get_task_stats(c)
    \/ \E c \in Credentials : get_categories(c)
    \/ \E c \in Credentials, task_id \in TaskIds : get_task(c, task_id)
    \/ \E c \in Credentials, task_id \in TaskIds, task_update \in AuthUpdateInputs :
           updates = {} /\ update_find(c, task_id, task_update)
    \/ \E req \in updates : update_write(req)
    \/ \E req \in updates : update_reread(req)
    \/ \E c \in Credentials, task_id \in TaskIds : delete_task(c, task_id)
    \/ root
    \/ \E input \in StatusInputs : create_status_check(input)
    \/ get_status_checks
    \/ clock_advance(PastExpiry, PastExpiry + MaxNow)

SpecAuth == AuthInit /\ [][AuthNext]_vars

(***************************************************************************)
(* The token specification.  A user signs up or logs in within the first  *)
(* MaxNow ticks, on a whole second or within one, under either expiry rule *)
(* of PyJWT; then the clock moves on, by 29 minutes, by a minute and by a  *)
(* tick less than a minute, and the issued tokens are presented to         *)
(* GET /auth/profile on the way.                                           *)
(***************************************************************************)
TokenSignupInputs == {user_data \in SignupInputs : user_data.email = "a@x.com" /\ user_data.password = "p"}

TokenLoginInputs == {login_data \in LoginInputs : login_data.email = "a@x.com" /\ login_data.password = "p"}

\* the clock of the token specification stops a minute after the last expiry
TokenMaxNow == MaxNow + timedelta_minutes(ACCESS_TOKEN_EXPIRE_MINUTES + 1)

TokenInit ==
    /\ now = 0
    /\ today = Day2
    /\ pyjwt \in PyJWTReleases
    /\ users = {}
    /\ issued = {}
    /\ tasks = {}
    /\ created = 0
    /\ status_checks = {}
    /\ signups = {}
    /\ updates = {}
    /\ resp = NoResp

TokenNext ==
    \/ \E user_data \in TokenSignupInputs : now <= MaxNow /\ signup_find(user_data)
    \/ \E user_data \in signups : now <= MaxNow /\ signup_insert(user_data)
    \/ \E login_data \in TokenLoginInputs : now <= MaxNow /\ login(login_data)
    \/ \E i \in issued : get_profile(Some(i.token))
    \/ clock_advance(1, MaxNow)
    \/ clock_advance(timedelta_minutes(29), TokenMaxNow)
    \/ clock_advance(timedelta_minutes(1), TokenMaxNow)
    \/ clock_advance(timedelta_minutes(1) - 1, TokenMaxNow)

SpecToken == TokenInit /\ [][TokenNext]_vars

(***************************************************************************)
(* The bulk specification.  The first user has created ListCap tasks, one  *)
(* fewer or one more; GET /tasks/stats is requested by both users on       *)
(* successive days.                                                        *)
(***************************************************************************)
BulkSizes == {ListCap - 1, ListCap, ListCap + 1}

\* the task every one of the many requests created
BulkInput ==
    [title |-> "Pay rent", description |-> "", due_date |-> Some(Day1),
     priority |-> "low", category |-> None, completed |-> FALSE]

BulkInit ==
    /\ now = 1
    /\ today \in {Day1, Day2}
    /\ pyjwt = PyJWTCurrent
    /\ users = {UserA, UserB}
    /\ issued = {[token |-> jwt_encode(Some(u.id), timedelta_minutes(ACCESS_TOKEN_EXPIRE_MINUTES),
                                       SECRET_KEY),
                  at |-> 0] : u \in users}
    /\ \E n \in BulkSizes, first_owner \in {u.id : u \in users}, last \in QueryCreateInputs :
          /\ tasks = {new_task_doc(task_id, BulkInput, 1, 0) : task_id \in 2..(n - 1)}
                        \cup {new_task_doc(1, BulkInput, first_owner, 0),
                              new_task_doc(n, last, 1, 1)}
          /\ created = n
    /\ status_checks = {}
    /\ signups = {}
    /\ updates = {}
    /\ resp = NoResp

BulkNext ==
    \/ \E c \in TaskCredentials : get_task_stats(c)
    \/ midnight

SpecBulk == BulkInit /\ [][BulkNext]_vars

(***************************************************************************)
(* The category specification.  From the store of the task specification   *)
(* the two users create tasks, change the category of tasks (to "Home", or *)
(* to the empty string, which TaskUpdate accepts) and delete tasks, and    *)
(* request GET /tasks/categories in between.                               *)
(***************************************************************************)
CategoryUpdateInputs ==
    { [NoUpdate EXCEPT !.category = Some("")],
      [NoUpdate EXCEPT !.category = Some("Home")] }

CategoryNext ==
    \/ \E c \in TaskCredentials, task_data \in CreateInputs : create_task(c, task_data)
    \/ \E c \in TaskCredentials, task_id \in TaskIds, task_update \in CategoryUpdateInputs :
           updates = {} /\ update_find(c, task_id, task_update)
    \/ \E req \in updates : update_write(req)
    \/ \E req \in updates : update_reread(req)
    \/ \E c \in TaskCredentials, task_id \in TaskIds : delete_task(c, task_id)
    \/ \E c \in TaskCredentials : get_categories(c)

SpecCategory == Init /\ [][CategoryNext]_vars

(***************************************************************************)
(* The filter specification.  GET /tasks is requested with filters, one    *)
(* at a time, all at once and with empty values, on the stores of the      *)
(* query specification.                                                    *)
(***************************************************************************)
FilterQueries ==
    { [NoFilter EXCEPT !.completed = Some(TRUE)],
      [NoFilter EXCEPT !.completed = Some(FALSE)],
      [NoFilter EXCEPT !.category = Some("General")],
      [NoFilter EXCEPT !.category = Some("")],
      [NoFilter EXCEPT !.priority = Some("medium")],
      [NoFilter EXCEPT !.priority = Some("high"), !.search = Some("")],
      [NoFilter EXCEPT !.search = Some("work")],
      [NoFilter EXCEPT !.search = Some("re"), !.completed = Some(FALSE),
                       !.priority = Some("low"), !.category = Some("General")] }

FilterNext ==
    \/ \E c \in TaskCredentials, q \in FilterQueries : get_tasks(c, q)

SpecFilter == QueryInit /\ [][FilterNext]_vars

(***************************************************************************)
(* The normalization specification: prepare_task_for_response is applied   *)
(* to a raw task record, and then to its own result, on one day.  The raw  *)
(* record has a due_date that is missing, None, an empty or an ISO string  *)
(* or a date object, has or lacks priority and category, and is completed  *)
(* or not.                                                                 *)
(***************************************************************************)
RawDueDates ==
    {EmptyDict, "due_date" :> PyNone, "due_date" :> PyStr(NoText)}
    \cup {"due_date" :> PyStr(isoformat(d)) : d \in {Day1, Day2, Day3}}
    \cup {"due_date" :> PyDate(d) : d \in {Day1, Day2, Day3}}

RawTasks ==
    {due_date @@ priority @@ category @@ [LegacyTask EXCEPT !.completed = completed] :
        due_date \in RawDueDates,
        priority \in {EmptyDict, "priority" :> "high"},
        category \in {EmptyDict, "category" :> "Work"},
        completed \in BOOLEAN}

PrepareInit ==
    /\ now = 0
    /\ today \in {Day1, Day2, Day3}
    /\ pyjwt = PyJWTCurrent
    /\ users = {UserA}
    /\ issued = {}
    /\ \E task \in RawTasks : tasks = {task}
    /\ created = 1
    /\ status_checks = {}
    /\ signups = {}
    /\ updates = {}
    /\ resp = NoResp

\* response_task = prepare_task_for_response(task), on the raw record
prepare_once ==
    /\ \E task \in tasks :
          resp' = OnQuery(task, Response("prepare_once", 200,
                                         prepare_task_for_response(task), None))
    /\ UNCHANGED <<pyjwt, users, tasks, status_checks, issued, created, now, today, signups, updates>>

\* prepare_task_for_response applied to its own result
prepare_again ==
    /\ resp.op \in {"prepare_once", "prepare_again"}
    /\ resp' = OnQuery(resp.body, Response("prepare_again", 200,
                                           prepare_task_for_response(resp.body), None))
    /\ UNCHANGED <<pyjwt, users, tasks, status_checks, issued, created, now, today, signups, updates>>

PrepareNext ==
    \/ prepare_once
    \/ prepare_again

SpecPrepare == PrepareInit /\ [][PrepareNext]_vars

(***************************************************************************)
(* The race specification.  Up to MaxInflight PUT requests on the task of  *)
(* the first user are under way at once, suspended at their store calls    *)
(* in every interleaving, while the clock ticks.                           *)
(***************************************************************************)
RaceUpdateInputs ==
    { [NoUpdate EXCEPT !.completed = Some(TRUE)],
      [NoUpdate EXCEPT !.completed = Some(FALSE), !.title = Some("Write report")] }

RaceNext ==
    \/ \E c \in TaskCredentials, task_id \in TaskIds, task_update \in RaceUpdateInputs :
           update_find(c, task_id, task_update)
    \/ \E req \in updates : update_write(req)
    \/ \E req \in updates : update_reread(req)
    \/ clock_advance(1, MaxNow)

SpecRace == Init /\ [][RaceNext]_vars

(***************************************************************************)
(* What the properties below read off a state.                             *)
(***************************************************************************)
\* the days of the calendar in order; the number of a day
Calendar == <<Day1, Day2, Day3>>

DayNo(d) == CHOOSE i \in 1..Len(Calendar) : Calendar[i] = d

\* the task responses among the bodies of a response
TaskBodies(r) ==
    IF r.status # 200 THEN {}
    ELSE IF r.op \in {"create_task", "get_task", "update_task"} THEN {r.body}
    ELSE IF r.op = "get_tasks" THEN {r.body[i] : i \in 1..Len(r.body)}
    ELSE {}

\* the user a token that passed get_current_user stands for
CallerOf(credentials) == Val(Val(credentials).sub)

\* the due date, not completed and due before today rule, on a stored task
OverdueRule(t) ==
    /\ "due_date" \in DOMAIN t
    /\ \E i \in 1..Len(Calendar) :
          /\ t.due_date = PyStr(isoformat(Calendar[i]))
          /\ i < DayNo(today)
    /\ ~t.completed

\* the fields a TaskUpdate can supply
UpdateFields == {"title", "description", "due_date", "priority", "category", "completed"}

\* an update request that takes a step in this transition
Steps(req) == req \in updates /\ req \notin updates'

(***************************************************************************)
(* C1: every task a task endpoint returns (create, list, get, update)      *)
(* carries is_overdue = TRUE exactly when the stored task, on the day it   *)
(* is served, has a due date, is not completed and is due before that day. *)
(***************************************************************************)
C1_IsOverdueRule ==
    \A b \in TaskBodies(resp) :
        \E t \in tasks : t.id = b.id /\ (b.is_overdue <=> OverdueRule(t))

\* a fetch of a task that was overdue and has been marked completed by an
\* update (it was created not completed, due the day before Day2)
C1_Witness ==
    /\ resp.op = "get_task" /\ resp.status = 200
    /\ resp.body.due_date = PyStr(isoformat(Day1))
    /\ resp.body.completed
    /\ resp.body.updated_at > resp.body.created_at
    /\ ~resp.body.is_overdue

(***************************************************************************)
(* C6: GET, PUT and DELETE on the id of a task the authenticated caller    *)
(* does not own answer 404 and leave the task stored and unchanged; no     *)
(* update is ever under way on a task of another user.                     *)
(***************************************************************************)
C6_OwnerOnly ==
    [][ \A t \in tasks :
          /\ ( /\ resp'.op \in {"get_task", "update_task", "delete_task"}
               /\ resp'.task_id = t.id
               /\ resp'.status # 401
               /\ CallerOf(resp'.credentials) # t.user_id )
             => (resp'.status = 404 /\ t \in tasks')
          /\ \A req \in updates' : req.task_id = t.id => req.user_id = t.user_id ]_vars

\* a DELETE by a user on a stored task of the other user
C6_Witness ==
    /\ resp.op = "delete_task" /\ resp.status = 404
    /\ \E t \in tasks : t.id = resp.task_id /\ t.user_id # CallerOf(resp.credentials)

(***************************************************************************)
(* C7: a PUT that supplies no field never writes to the store (the stored  *)
(* updated_at stays as it is); the write of a PUT that supplies a field    *)
(* sets the stored updated_at to the time of the update, which is not      *)
(* before the updated_at the request read.                                 *)
(***************************************************************************)
C7_UpdatedAt ==
    [][ \A req \in updates :
          /\ req.task_update = NoUpdate => req.pc = "find_one"
          /\ (Steps(req) /\ req.pc = "find_one") => tasks' = tasks
          /\ (Steps(req) /\ req.pc = "update_one") =>
                /\ req.task_update # NoUpdate
                /\ \A t \in tasks' :
                      t.id = req.task_id =>
                         /\ t.updated_at = req.update_data.updated_at
                         /\ t.updated_at <= now
                         /\ t.updated_at >= req.existing_task.updated_at ]_vars

\* a stored task whose updated_at an update has moved past its created_at,
\* while an update without fields is under way
C7_Witness ==
    /\ \E t \in tasks : t.updated_at > t.created_at
    /\ \E req \in updates : req.task_update = NoUpdate

(***************************************************************************)
(* C8: the write of a PUT changes, on the addressed task, only fields the  *)
(* request supplies (and updated_at), and leaves every other task as it    *)
(* is; no step of any request changes the id, the owner or created_at of   *)
(* a stored task, and only the write of a PUT changes a stored task.       *)
(***************************************************************************)
C8_PartialUpdate ==
    [][ \A t \in tasks :
          \/ t \in tasks'
          \/ \A u \in tasks' : u.id # t.id
          \/ \E req \in updates, u \in tasks' :
                /\ Steps(req) /\ req.pc = "update_one"
                /\ req.task_id = t.id /\ req.user_id = t.user_id
                /\ u.id = t.id /\ u.user_id = t.user_id /\ u.created_at = t.created_at
                /\ \A f \in UpdateFields :
                      IsNone(req.task_update[f]) =>
                         /\ (f \in DOMAIN u) = (f \in DOMAIN t)
                         /\ f \in DOMAIN t => u[f] = t[f] ]_vars

\* a stored task an update has written a title to, its priority still missing
C8_Witness ==
    \E t \in tasks :
        /\ t.title = "Write report" /\ t.updated_at > t.created_at
        /\ "priority" \notin DOMAIN t /\ "due_date" \in DOMAIN t

(***************************************************************************)
(* C2 as claimed: the user collection holds at most one user per email in  *)
(* every reachable state, signup requests for one email interleaving at    *)
(* their store calls included.                                             *)
(***************************************************************************)
C2_OneUserPerEmail ==
    \A u, v \in users : u.email = v.email => u = v

(***************************************************************************)
(* C3 as claimed: a token issued at time T is accepted by a protected      *)
(* request at every time before T + 30 minutes and rejected as expired at  *)
(* every time from T + 30 minutes on.                                      *)
(***************************************************************************)
Lifetime == timedelta_minutes(ACCESS_TOKEN_EXPIRE_MINUTES)

\* the issuances of the token that the answered request carried
Presented(r) == {i \in issued : r.op = "get_profile" /\ r.credentials = Some(i.token)}

Accepted(r) == r.status = 200

Expired(r) == r.status = 401 /\ r.body = "Token expired"

C3_ExpiresAtThirtyMinutes ==
    \A i \in Presented(resp) :
        (\A j \in Presented(resp) : j.at = i.at) =>
            /\ now < i.at + Lifetime => Accepted(resp)
            /\ now >= i.at + Lifetime => Expired(resp)

(***************************************************************************)
(* C3: a token issued at time T carries as expiry the whole second that    *)
(* T + 30 minutes lies in.  A protected request presenting it is accepted  *)
(* at every time before that second begins (at T + 29 minutes) and is      *)
(* rejected as expired at every time after that second ends (at T + 31     *)
(* minutes), whatever was requested in between: nothing renews a token.    *)
(* Within that second the installed PyJWT release decides.                 *)
(***************************************************************************)
\* the tick at which the second of T + 30 minutes begins
ExpirySecond(i) == ((i.at + Lifetime) \div TicksPerSecond) * TicksPerSecond

C3_ExpiresWithinTheSecond ==
    \A i \in Presented(resp) :
        /\ now < ExpirySecond(i) => Accepted(resp)
        /\ now >= ExpirySecond(i) + TicksPerSecond => Expired(resp)

\* a token presented 31 minutes after it was issued within a second, and rejected
C3_Witness ==
    \E i \in Presented(resp) :
        /\ i.at % TicksPerSecond # 0
        /\ now = i.at + timedelta_minutes(ACCESS_TOKEN_EXPIRE_MINUTES + 1)
        /\ Expired(resp)

(***************************************************************************)
(* C4 as claimed: a request to an endpoint other than signup, login and    *)
(* the health endpoint is answered with anything but 401 only if its token *)
(* is validly signed, unexpired, has a subject and the subject is the id   *)
(* of a stored user; otherwise the answer is 401 and nothing is written.   *)
(***************************************************************************)
PublicOps == {"signup", "login", "root"}

\* the step answers a request in the request's first step
AnswersAtOnce == resp'.op \notin {"none"} /\ updates' = updates

StoreUnchanged == users' = users /\ tasks' = tasks /\ status_checks' = status_checks

C4_TokenRequired ==
    [][ /\ (AnswersAtOnce /\ resp'.op \notin PublicOps) =>
              \/ get_current_user(resp'.credentials).ok
              \/ resp'.status = 401 /\ StoreUnchanged
        /\ \A req \in updates' \ updates : get_current_user(req.credentials).ok
      ]_vars

(***************************************************************************)
(* C5: a request to a protected endpoint (one that depends on              *)
(* get_current_user) whose authentication fails ends with 401, and the     *)
(* user and task collections are after it what they were before it.        *)
(***************************************************************************)
ProtectedOps ==
    {"get_profile", "create_task", "get_tasks", "get_task_stats", "get_categories",
     "get_task", "update_task", "delete_task"}

C5_AuthFailureLeavesStore ==
    [][ (AnswersAtOnce /\ resp'.op \in ProtectedOps
            /\ ~get_current_user(resp'.credentials).ok) =>
           (resp'.status = 401 /\ users' = users /\ tasks' = tasks)
      ]_vars

\* DELETE of a stored task with its owner's expired token was answered 401
C5_Witness ==
    /\ resp.op = "delete_task" /\ resp.status = 401 /\ resp.body = "Token expired"
    /\ \E t \in tasks : t.id = resp.task_id /\ Some(t.user_id) = Val(resp.credentials).sub

(***************************************************************************)
(* C9 as claimed: GET /tasks with sort_by=priority returns the tasks high  *)
(* before medium before low, for sort_order=asc as for sort_order=desc     *)
(* (stated of the tasks that have a stored priority).                      *)
(***************************************************************************)
\* high > medium > low, on the priority a response carries
PriorityRank(p) == CASE p = "high" -> 3 [] p = "medium" -> 2 [] p = "low" -> 1 [] OTHER -> 0

SortedByPriority(r) ==
    r.op = "get_tasks" /\ r.status = 200 /\ Val(r.query).sort_by = "priority"

HasStoredPriority(task_id) == \E t \in tasks : t.id = task_id /\ "priority" \in DOMAIN t

C9_HighFirstEitherOrder ==
    SortedByPriority(resp) =>
        \A i, j \in 1..Len(resp.body) :
            (i < j /\ HasStoredPriority(resp.body[i].id) /\ HasStoredPriority(resp.body[j].id))
               => PriorityRank(resp.body[i].priority) >= PriorityRank(resp.body[j].priority)

(***************************************************************************)
(* C9 amended: GET /tasks with sort_by=priority returns the tasks by the   *)
(* ordinal of their stored priority (high 3, medium 2, low 1, none 0):     *)
(* descending for sort_order=desc (high, medium, low), ascending for       *)
(* sort_order=asc (low, medium, high).                                     *)
(***************************************************************************)
\* the ordinal of the priority stored on the task with this id
StoredOrdinal(task_id) ==
    LET t == CHOOSE u \in tasks : u.id = task_id
    IN  IF "priority" \in DOMAIN t THEN PriorityRank(t.priority) ELSE 0

C9_OrderFollowsSortOrder ==
    SortedByPriority(resp) =>
        \A i, j \in 1..Len(resp.body) :
            i < j =>
               IF Val(resp.query).sort_order = "asc"
               THEN StoredOrdinal(resp.body[i].id) <= StoredOrdinal(resp.body[j].id)
               ELSE StoredOrdinal(resp.body[i].id) >= StoredOrdinal(resp.body[j].id)

\* tasks of priority low, high, medium stored in this order, listed with
\* sort_order=asc: returned low, medium, high
C9_Witness ==
    /\ SortedByPriority(resp) /\ Val(resp.query).sort_order = "asc"
    /\ Len(resp.body) = 3
    /\ <<resp.body[1].id, resp.body[2].id, resp.body[3].id>> = <<1, 3, 2>>
    /\ <<resp.body[1].priority, resp.body[2].priority, resp.body[3].priority>>
          = <<"low", "medium", "high">>

(***************************************************************************)
(* C10: the statistics GET /tasks/stats returns satisfy                    *)
(* completed + pending = total, and the counts of the category breakdown   *)
(* sum to total, also when tasks without a category field are counted.    *)
(***************************************************************************)
RECURSIVE SumCounts(_)
SumCounts(categories) ==
    IF categories = <<>> THEN 0
    ELSE categories[1].count + SumCounts(Tail(categories))

C10_StatsAddUp ==
    (resp.op = "get_task_stats" /\ resp.status = 200) =>
        /\ resp.body.completed + resp.body.pending = resp.body.total
        /\ SumCounts(resp.body.categories) = resp.body.total

\* statistics over three tasks of the caller, two of them in "General", one
\* of these a task without a category field
C10_Witness ==
    /\ resp.op = "get_task_stats" /\ resp.status = 200
    /\ resp.body.total = 3
    /\ \E i \in 1..Len(resp.body.categories) :
          resp.body.categories[i].name = "General" /\ resp.body.categories[i].count = 2
    /\ \E t \in tasks :
          t.user_id = CallerOf(resp.credentials) /\ "category" \notin DOMAIN t

(***************************************************************************)
(* C11 as claimed: GET /tasks/stats counts over all the tasks the caller   *)
(* owns, however many: total is their number, completed the number of the  *)
(* completed ones, overdue the number of those overdue by the rule of      *)
(* is_overdue, high_priority the number of those of priority high; the     *)
(* tasks of other users do not count.                                      *)
(***************************************************************************)
\* the stored tasks of the caller a response went to
Owned(r) == {t \in tasks : t.user_id = CallerOf(r.credentials)}

C11_StatsCountAll ==
    (resp.op = "get_task_stats" /\ resp.status = 200) =>
        /\ resp.body.total = Cardinality(Owned(resp))
        /\ resp.body.completed = Cardinality({t \in Owned(resp) : t.completed})
        /\ resp.body.overdue = Cardinality({t \in Owned(resp) : OverdueRule(t)})
        /\ resp.body.high_priority =
              Cardinality({t \in Owned(resp) : FieldIs(t, "priority", "high")})

(***************************************************************************)
(* C12 as claimed: GET /tasks/categories returns exactly the distinct      *)
(* category values stored on the caller's tasks together with the six      *)
(* default categories, without duplicates, in ascending order.             *)
(***************************************************************************)
Defaults == {default_categories[i] : i \in 1..Len(default_categories)}

\* the category values stored on the caller's tasks
StoredCategories(r) == {t.category : t \in {u \in Owned(r) : "category" \in DOMAIN u}}

Listed(r) == {r.body[i] : i \in 1..Len(r.body)}

Ascending(seq) == \A i, j \in 1..Len(seq) : i < j => StrRank(seq[i]) < StrRank(seq[j])

C12_StoredAndDefaults ==
    (resp.op = "get_categories" /\ resp.status = 200) =>
        /\ Listed(resp) = StoredCategories(resp) \cup Defaults
        /\ Ascending(resp.body)

(***************************************************************************)
(* C12: GET /tasks/categories returns exactly the distinct non-empty       *)
(* category values stored on the caller's tasks together with the six      *)
(* default categories, without duplicates, in ascending order, as long as  *)
(* the caller's tasks form at most GroupCap category groups (one group per *)
(* stored value, one for the tasks without a category field).  The empty   *)
(* string, which an update can store, is not listed.                       *)
(***************************************************************************)
CategoryGroups(r) ==
    StoredCategories(r) \cup {"" : t \in {u \in Owned(r) : "category" \notin DOMAIN u}}

C12_NonEmptyStoredAndDefaults ==
    (resp.op = "get_categories" /\ resp.status = 200
        /\ Cardinality(CategoryGroups(resp)) <= GroupCap) =>
        /\ Listed(resp) = (StoredCategories(resp) \ {""}) \cup Defaults
        /\ Ascending(resp.body)

\* the categories of a caller with a task in "Home", a task whose category
\* is the empty string, and no task in "General"
C12_Witness ==
    /\ resp.op = "get_categories" /\ resp.status = 200
    /\ {"Home", ""} \subseteq StoredCategories(resp)
    /\ "General" \notin StoredCategories(resp)
    /\ Len(resp.body) = 7

(***************************************************************************)
(* C13 as claimed: GET /tasks returns exactly the caller's tasks that      *)
(* satisfy every supplied filter: completed, category and priority equal   *)
(* to the supplied value, the search term found in title, description or   *)
(* category.  A filter is read on the task as the API shows it, and an     *)
(* empty filter value is taken as not supplied.                            *)
(***************************************************************************)
\* the task as task responses show it satisfies the filters of q
Satisfies(shown, q) ==
    /\ IsNone(q.completed) \/ shown.completed = Val(q.completed)
    /\ ~TruthyStr(q.category) \/ shown.category = Val(q.category)
    /\ ~TruthyStr(q.priority) \/ shown.priority = Val(q.priority)
    /\ ~TruthyStr(q.search) \/ regex_search(Val(q.search), shown.title)
                            \/ regex_search(Val(q.search), shown.description)
                            \/ regex_search(Val(q.search), shown.category)

C13_ExactlyTheMatching ==
    (resp.op = "get_tasks" /\ resp.status = 200) =>
        {resp.body[i] : i \in 1..Len(resp.body)}
            = {shown \in {prepare_task_for_response(t) : t \in Owned(resp)} :
                  Satisfies(shown, Val(resp.query))}

(***************************************************************************)
(* C14 as claimed: login answers 200 with a token whose subject is the id  *)
(* of a stored user with the given email exactly when there is such a user *)
(* whose stored hash the given password verifies against; otherwise it     *)
(* answers 401 and issues no token; it never modifies the store.           *)
(***************************************************************************)
\* the stored users with the email of login_data whose hash its password verifies against
Holders(login_data) ==
    {u \in users : u.email = login_data.email
                     /\ verify_password(login_data.password, u.password)}

C14_LoginExactly ==
    [][ resp'.op = "login" =>
          LET login_data == Val(resp'.query)
          IN  /\ Holders(login_data) # {} =>
                    /\ resp'.status = 200
                    /\ \E u \in Holders(login_data) : resp'.body.access_token.sub = Some(u.id)
              /\ Holders(login_data) = {} => (resp'.status = 401 /\ issued' = issued)
              /\ StoreUnchanged
      ]_vars

(***************************************************************************)
(* C15: in the answer of GET /tasks with sort_by=priority, tasks of the    *)
(* same priority ordinal (high 3, medium 2, low 1, anything else 0) come   *)
(* in descending created_at order, for sort_order=asc and sort_order=desc. *)
(***************************************************************************)
C15_TiesByCreatedAtDescending ==
    SortedByPriority(resp) =>
        \A i, j \in 1..Len(resp.body) :
            (i < j /\ StoredOrdinal(resp.body[i].id) = StoredOrdinal(resp.body[j].id))
               => resp.body[i].created_at >= resp.body[j].created_at

\* sort_order=asc: a high task, and before it two low tasks, the later
\* created one first
C15_Witness ==
    /\ SortedByPriority(resp) /\ Val(resp.query).sort_order = "asc"
    /\ Len(resp.body) = 3
    /\ <<resp.body[1].priority, resp.body[2].priority, resp.body[3].priority>>
          = <<"low", "low", "high">>
    /\ resp.body[1].created_at > resp.body[2].created_at

(***************************************************************************)
(* C16: an update whose task a concurrent request deleted after the        *)
(* update's existence check, before or after its write, answers 404; a     *)
(* PUT answers 200 only if its last store step, the second find_one, finds *)
(* the task, and a DELETE answers 200 only if its delete_one finds it, 404 *)
(* if it does not.                                                         *)
(***************************************************************************)
\* the caller's task with this id is in the store
Stored(task_id, user_id) == \E t \in tasks : t.id = task_id /\ t.user_id = user_id

C16_NoSuccessOnDeletedTask ==
    [][ /\ \A req \in updates :
              (Steps(req) /\ req.pc = "find_one") =>
                  /\ resp'.op = "update_task" /\ resp'.task_id = req.task_id
                  /\ resp'.status = IF Stored(req.task_id, req.user_id) THEN 200 ELSE 404
        /\ (resp'.op = "delete_task" /\ resp'.status # 401) =>
              resp'.status = IF Stored(resp'.task_id, CallerOf(resp'.credentials))
                             THEN 200 ELSE 404
      ]_vars

\* a DELETE has just removed the task of an update that passed its existence
\* check and has not written yet
C16_Witness ==
    /\ resp.op = "delete_task" /\ resp.status = 200
    /\ \E req \in updates :
          /\ req.task_id = resp.task_id /\ req.pc = "update_one"
          /\ ~Stored(req.task_id, req.user_id)

(***************************************************************************)
(* C17 as claimed: the write of a PUT that repeats the PUT applied to the  *)
(* task just before (same task, same supplied fields) leaves the stored    *)
(* task as the first left it.                                              *)
(***************************************************************************)
\* the stored task carries every field the request supplies with the value
\* the request supplies, as the same request leaves it
Repeats(req) ==
    \E t \in tasks :
        /\ t.id = req.task_id /\ t.user_id = req.user_id
        /\ \A k \in DOMAIN req.update_data \ {"updated_at"} :
              k \in DOMAIN t /\ t[k] = req.update_data[k]

Writes(req) == Steps(req) /\ req.pc = "update_one"

C17_RepeatLeavesTask ==
    [][ \A req \in updates : (Writes(req) /\ Repeats(req)) => tasks' = tasks ]_vars

(***************************************************************************)
(* C17: the write of a PUT that repeats the PUT applied to the task just   *)
(* before leaves every field of the stored task as the first left it,      *)
(* except updated_at, which becomes the time of the repeated request; a    *)
(* PUT without fields writes nothing.  Every other task is left as it is.  *)
(***************************************************************************)
C17_RepeatLeavesAllButUpdatedAt ==
    [][ \A req \in updates :
          (Writes(req) /\ Repeats(req)) =>
              tasks' = {IF t.id = req.task_id /\ t.user_id = req.user_id
                        THEN [t EXCEPT !.updated_at = req.update_data.updated_at]
                        ELSE t : t \in tasks} ]_vars

\* the PUT {completed: true} has been written to the first task a second
\* time, a tick after the first left the task completed
C17_Witness ==
    \E req \in updates, t \in tasks :
        /\ req.task_id = 1 /\ t.id = 1 /\ req.pc = "find_one"
        /\ req.task_update = [NoUpdate EXCEPT !.completed = Some(TRUE)]
        /\ req.existing_task.completed
        /\ t.updated_at = req.update_data.updated_at
        /\ t.updated_at > req.existing_task.updated_at

(***************************************************************************)
(* C18: on one day, prepare_task_for_response applied to its own result    *)
(* returns that result: the same fields, the same is_overdue, the same     *)
(* due_date text, whatever raw record the result came from.                *)
(***************************************************************************)
C18_PrepareIdempotent ==
    resp.op = "prepare_again" => resp.body = Val(resp.query)

\* the second application on the result for a record without priority and
\* category whose due_date was a date object the day before today
C18_Witness ==
    /\ resp.op = "prepare_again"
    /\ \E task \in tasks :
          /\ DOMAIN task \cap {"priority", "category"} = {}
          /\ "due_date" \in DOMAIN task /\ task.due_date = PyDate(Day1)
    /\ today = Day2
    /\ resp.body.is_overdue
    /\ resp.body.due_date = PyStr(isoformat(Day1))
    /\ resp.body.priority = "medium" /\ resp.body.category = "General"

(***************************************************************************)
(* C19: PUT requests on one task that interleave at their store calls are  *)
(* last-write-wins.  None is rejected because of another: each is answered *)
(* 200.  Each write is applied whole: after it the stored task has, for    *)
(* every field the request supplies (and updated_at), the request's value, *)
(* whatever the other requests wrote before; and only a write changes the  *)
(* task, so when all have completed each field has the value of the last   *)
(* write that supplied it.                                                 *)
(***************************************************************************)
C19_LastWriteWins ==
    [][ \A req \in updates :
          /\ Writes(req) =>
                \E t \in tasks' :
                    /\ t.id = req.task_id /\ t.user_id = req.user_id
                    /\ \A k \in DOMAIN req.update_data : t[k] = req.update_data[k]
                    /\ \A u \in tasks : u.id = t.id =>
                          \A k \in DOMAIN u \ DOMAIN req.update_data : t[k] = u[k]
          /\ (Steps(req) /\ req.pc = "find_one") =>
                (resp'.op = "update_task" /\ resp'.status = 200 /\ tasks' = tasks)
          /\ ~Steps(req) => (tasks' = tasks \/ \E other \in updates : Writes(other))
      ]_vars

\* two PUTs on the first task have both written: the one that wrote last
\* left completed, the other one's title is still stored
C19_Witness ==
    \E first, last \in updates, t \in tasks :
        /\ first.task_id = 1 /\ last.task_id = 1 /\ t.id = 1
        /\ first.pc = "find_one" /\ last.pc = "find_one"
        /\ "title" \in DOMAIN first.update_data
        /\ ~first.update_data.completed /\ last.update_data.completed
        /\ t.title = first.update_data.title
        /\ t.completed /\ t.updated_at = last.update_data.updated_at
        /\ last.update_data.updated_at < first.update_data.updated_at

=============================================================================
